---- MODULE Spec2Model ----
(***************************************************************************)
(* A model of server.js: the JSON content store (data/site-content.json),  *)
(* the uploads directory, the admin gate and the six content/photo routes. *)
(*                                                                         *)
(* JavaScript values are tagged records ([t |-> "object", ...]); a photo   *)
(* object is a record [id, url, label, position]; a string that the code   *)
(* takes apart (a file name, a position field) is a tuple of characters.   *)
(* The content document is a function from its own keys to values.         *)
(* req.body is taken to be an object on every request (body-parser sets    *)
(* req.body = req.body || {} before the routes run).                       *)
(***************************************************************************)
EXTENDS Integers, Sequences, FiniteSets, TLC

VARIABLES
    file,            \* data/site-content.json: missing, unparsable, or JSON text
    defaultContent,  \* the module-level object of that name (mutable, shared)
    uploads,         \* names of the files in the uploads directory
    now,             \* Date.now()
    resp,            \* the response to the latest request
    hist,            \* the latest successful mutation, while nothing has
                     \* changed the document since
    steps,           \* how many requests, file events and clock ticks so far
    reqs,            \* the requests in flight together: what each asked for
                     \* and how far its handler has come
    writes           \* how many times a handler has begun to write the data file

vars == <<file, defaultContent, uploads, now, resp, hist, steps, reqs, writes>>

\* ------------------------------------------------------------------ bounds
MaxSteps == 4     \* a run holds at most this many requests, file events and ticks
MaxRequests == 2  \* at most this many requests are in flight together

\* ------------------------------------------------------- JavaScript values
Undefined == [t |-> "undefined"]
Null == [t |-> "null"]
NaN == [t |-> "NaN"]
Num(n) == [t |-> "number", n |-> n]
Str(cs) == [t |-> "string", s |-> cs]
Arr(items) == [t |-> "array", items |-> items]
Obj(fields) == [t |-> "object", fields |-> fields]
\* a property inherited from Object.prototype (a function or the prototype)
Inherited(name) == [t |-> "inherited", name |-> name]

IsArray(v) == v.t = "array"

\* JavaScript truthiness (the operand of ! and ||)
Falsy(v) ==
    \/ v.t \in {"undefined", "null", "NaN"}
    \/ v.t = "number" /\ v.n = 0
    \/ v.t = "string" /\ v.s = <<>>

Digits == {"0", "1", "2", "3", "4", "5", "6", "7", "8", "9"}

DigitVal(c) ==
    CASE c = "0" -> 0 [] c = "1" -> 1 [] c = "2" -> 2 [] c = "3" -> 3
      [] c = "4" -> 4 [] c = "5" -> 5 [] c = "6" -> 6 [] c = "7" -> 7
      [] c = "8" -> 8 [] c = "9" -> 9

RECURSIVE DecimalValue(_)
DecimalValue(cs) ==
    IF cs = <<>> THEN 0
    ELSE 10 * DecimalValue(SubSeq(cs, 1, Len(cs) - 1)) + DigitVal(cs[Len(cs)])

\* the longest prefix of cs made of digits
RECURSIVE DigitPrefix(_)
DigitPrefix(cs) ==
    IF cs = <<>> \/ Head(cs) \notin Digits THEN <<>>
    ELSE <<Head(cs)>> \o DigitPrefix(Tail(cs))

\* parseInt(cs, 10) of a string without leading blanks: an optional sign,
\* then the digits up to the first character that is none
ParseInt(cs) ==
    LET negative == cs # <<>> /\ Head(cs) = "-"
        signed == cs # <<>> /\ Head(cs) \in {"-", "+"}
        digits == DigitPrefix(IF signed THEN Tail(cs) ELSE cs)
    IN  IF digits = <<>> THEN NaN
        ELSE Num(IF negative THEN 0 - DecimalValue(digits) ELSE DecimalValue(digits))

\* the numeric conversion the operator - applies to an operand
ToNumber(v) ==
    CASE v.t = "number" -> v
      [] v.t = "string" ->
            IF v.s = <<>> THEN Num(0)
            ELSE IF DigitPrefix(v.s) = v.s THEN Num(DecimalValue(v.s))
            ELSE NaN
      [] v.t = "null" -> Num(0)
      [] OTHER -> NaN

\* ------------------------------------------------------------ basic config
ADMIN_KEY == Str(<<"change-me">>)

SectionNames == {"about", "services", "availability", "photos", "contact"}

\* the module-level literal (the long texts of each section are cut to one
\* field; its five keys and its empty photos array are as in the source)
BuiltInContent ==
    [name \in SectionNames |->
        CASE name = "about" ->
                Obj([tagline |-> Str(<<"Professional tagline">>)])
          [] name = "services" ->
                Arr(<<Obj([id |-> Str(<<"standard">>)]),
                      Obj([id |-> Str(<<"extended">>)]),
                      Obj([id |-> Str(<<"evening">>)])>>)
          [] name = "availability" ->
                Obj([note |-> Str(<<"This is just a visual guide.">>)])
          [] name = "photos" -> Arr(<<>>)
          [] name = "contact" ->
                Obj([email |-> Str(<<"youremail@example.com">>)])]

\* -------------------------------------------------- JSON text of a value
IsPhoto(item) == "position" \in DOMAIN item

\* JSON.stringify writes NaN as null
StringifyItem(item) ==
    IF IsPhoto(item) /\ item.position = NaN
    THEN [item EXCEPT !.position = Null]
    ELSE item

StringifyValue(v) ==
    IF IsArray(v)
    THEN Arr([i \in 1..Len(v.items) |-> StringifyItem(v.items[i])])
    ELSE v

\* JSON.stringify(content, null, 2): the text, given as the value it denotes
Stringify(content) == [k \in DOMAIN content |-> StringifyValue(content[k])]

Missing == [kind |-> "missing"]
Corrupt == [kind |-> "corrupt"]
\* fs.writeFileSync has truncated the file and not yet written all of the
\* text: a proper prefix of the text of an object, which is no JSON text
Partial == [kind |-> "corrupt", partial |-> TRUE]
JsonFile(content) == [kind |-> "json", doc |-> Stringify(content)]

\* --------------------------------------------------------------- readContent
\* readContent as it would be if it wrote a document of empty sections when
\* the file is missing or unparsable
readContentBlank(f, dc) ==
    IF f.kind = "json"
    THEN [content |-> f.doc, file |-> f, alias |-> FALSE]
    ELSE [content |-> dc, file |-> JsonFile([k \in DOMAIN dc |-> Null]),
          alias |-> TRUE]

\* content: the object returned; file: DATA_FILE afterwards; alias: whether
\* the object returned is defaultContent itself
readContent(f, dc) ==
    IF f.kind = "missing"
    THEN [content |-> dc, file |-> JsonFile(dc), alias |-> TRUE]
    ELSE IF f.kind = "corrupt"
    THEN [content |-> dc, file |-> JsonFile(dc), alias |-> TRUE]
    ELSE [content |-> f.doc, file |-> f, alias |-> FALSE]

\* writeContent as it would be if it wrote the module-level default object
writeContentOfDefault(content) == JsonFile(BuiltInContent)

writeContent(content) == JsonFile(content)

\* what the handler's later assignments to content do to defaultContent
AfterMutation(r, content2, dc) == IF r.alias THEN content2 ELSE dc

\* ---------------------------------------------------------- requireAdminKey
\* header || query || body field
Credential(header, query, bodyKey) ==
    IF ~Falsy(header) THEN header
    ELSE IF ~Falsy(query) THEN query
    ELSE bodyKey

\* the gate as it would be with (key && key !== ADMIN_KEY)
RejectedWhenPresent(key) == ~Falsy(key) /\ key # ADMIN_KEY

\* !key || key !== ADMIN_KEY
Rejected(key) == Falsy(key) \/ key # ADMIN_KEY

\* ------------------------------------------------- multer filename (storage)
\* the characters /[a-z0-9-_]/i keeps, among those the model's names use
SafeChars == Digits \cup {"a", "b", "p", "-", "_"}

\* the index of the last "." of cs that is not its first character, or 0
LastDot(cs) ==
    LET dots == {i \in 2..Len(cs) : cs[i] = "."}
    IN  IF dots = {} THEN 0 ELSE CHOOSE i \in dots : \A j \in dots : j <= i

\* path.extname
ExtName(cs) ==
    IF LastDot(cs) = 0 THEN <<>> ELSE SubSeq(cs, LastDot(cs), Len(cs))

\* path.basename(cs, ext) of a name without directories
BaseName(cs) ==
    IF LastDot(cs) = 0 THEN cs ELSE SubSeq(cs, 1, LastDot(cs) - 1)

\* .replace(/[^a-z0-9-_]/gi, "_")
Sanitize(cs) ==
    [i \in 1..Len(cs) |-> IF cs[i] \in SafeChars THEN cs[i] ELSE "_"]

\* `${base}_${unique}${ext}`, kept as its three parts
filename(originalname, clock) ==
    [base |-> Sanitize(BaseName(originalname)),
     unique |-> clock,
     ext |-> ExtName(originalname)]

\* `/uploads/${req.file.filename}`
UrlOf(id) == [prefix |-> "/uploads/", name |-> id]

\* ------------------------------------------------------- the photos ordering
\* (a.position || 0)
PosOrZero(p) == IF Falsy(p.position) THEN Num(0) ELSE p.position

\* (a.position || 0) - (b.position || 0), a NaN result read as +0 by sort
Compare(a, b) ==
    LET x == ToNumber(PosOrZero(a))
        y == ToNumber(PosOrZero(b))
    IN  IF x = NaN \/ y = NaN THEN 0 ELSE x.n - y.n

\* whether Compare is a consistent comparator for the elements of items
Consistent(items) ==
    \A i, j, k \in 1..Len(items) :
        /\ (Compare(items[i], items[j]) = 0 /\ Compare(items[j], items[k]) = 0)
                => Compare(items[i], items[k]) = 0
        /\ (Compare(items[i], items[j]) < 0 /\ Compare(items[j], items[k]) < 0)
                => Compare(items[i], items[k]) < 0
        /\ (Compare(items[i], items[j]) > 0 /\ Compare(items[j], items[k]) > 0)
                => Compare(items[i], items[k]) > 0

\* x put after the last element of the sorted sequence that is not greater
RECURSIVE InsertSorted(_, _)
InsertSorted(sorted, x) ==
    IF sorted = <<>> THEN <<x>>
    ELSE IF Compare(sorted[Len(sorted)], x) <= 0 THEN Append(sorted, x)
    ELSE Append(InsertSorted(SubSeq(sorted, 1, Len(sorted) - 1), x),
                sorted[Len(sorted)])

RECURSIVE StableSort(_)
StableSort(items) ==
    IF items = <<>> THEN <<>>
    ELSE InsertSorted(StableSort(SubSeq(items, 1, Len(items) - 1)),
                      items[Len(items)])

Rearrangements(items) ==
    {[i \in 1..Len(items) |-> items[p[i]]] :
        p \in {q \in [1..Len(items) -> 1..Len(items)] :
                  \A a, b \in 1..Len(items) : a # b => q[a] # q[b]}}

\* Array.prototype.sort with Compare: the stable sort, and an order the
\* implementation chooses when Compare is not consistent for the elements
SortOutcomes(items) ==
    IF Consistent(items) THEN {StableSort(items)} ELSE Rearrangements(items)

\* ------------------------------------------------------------------ requests
Response(op, status, name, id, body, key, fault) ==
    [op |-> op, status |-> status, name |-> name, id |-> id,
     body |-> body, key |-> key, fault |-> fault]

NoResponse == Response("none", 0, "", Undefined, Undefined, Undefined, "")

ErrorBody(msg) == Obj([error |-> Str(<<msg>>)])
OkBody == Obj([status |-> Str(<<"ok">>)])

NoHistory == [kind |-> "none"]
PutHistory(name, body) == [kind |-> "put", name |-> name, body |-> body]
RemovedHistory(id) == [kind |-> "removed", id |-> id]

\* content[name]: an own property, else one inherited from Object.prototype
ObjectPrototypeNames == {"constructor", "toString", "hasOwnProperty", "__proto__"}

Lookup(content, name) ==
    IF name \in DOMAIN content THEN content[name]
    ELSE IF name \in ObjectPrototypeNames THEN Inherited(name)
    ELSE Undefined

\* the test as it would be with a truthiness test of content[name]
HasProperty(content, name) == ~Falsy(Lookup(content, name))

\* Object.prototype.hasOwnProperty.call(content, name)
HasOwn(content, name) == name \in DOMAIN content

\* the assignment as it would be if the handler kept only the section sent
AssignAlone(content, name, v) == [k \in {name} |-> v]

\* content[name] = v
Assign(content, name, v) ==
    [k \in DOMAIN content \cup {name} |-> IF k = name THEN v ELSE content[k]]

\* req.body[k]
BodyField(body, k) ==
    IF body.t = "object" /\ k \in DOMAIN body.fields THEN body.fields[k]
    ELSE Undefined

\* --- request inputs
\* the x-admin-key header and the adminKey query parameter of a request
Credentials ==
    {<<Undefined, Undefined>>, <<Str(<<>>), ADMIN_KEY>>,
     <<Str(<<"wrong">>), ADMIN_KEY>>, <<ADMIN_KEY, Undefined>>}

OrigNames == {<<"a", " ", ".", "p">>, <<"a", "_", ".", "p">>}

GhostId == [base |-> <<"b">>, unique |-> 0, ext |-> <<>>]
\* the ids a DELETE may name: those an upload can have been given, and one more
PhotoIds(clock) == {filename(n, c) : n \in OrigNames, c \in 0..clock} \cup {GhostId}

Photo(id, label, position) ==
    [id |-> id, url |-> UrlOf(id), label |-> label, position |-> position]

\* PUT bodies: an object with an adminKey field, and an array of one photo
\* object whose position is a string that is no number
KeyBody == Obj([adminKey |-> ADMIN_KEY])
PhotoArrayBody == Arr(<<Photo(GhostId, Str(<<"Photo">>), Str(<<"x">>))>>)
Bodies == {KeyBody, PhotoArrayBody}

ReqNames == {"contact", "photos", "doesNotExist", "constructor"}

\* the multipart form of an upload: no file, or a file with the two fields
NoFile == [hasFile |-> FALSE]
Upload(originalname, labelField, positionField) ==
    [hasFile |-> TRUE, originalname |-> originalname, label |-> labelField,
     position |-> positionField]
LabelFields == {Undefined}
PositionFields == {Undefined, Str(<<"-", "1">>), Str(<<"x">>)}
Forms ==
    {NoFile} \cup {Upload(n, l, p) : n \in OrigNames, l \in LabelFields,
                                       p \in PositionFields}

\* GET /api/content
GetContent ==
    LET r == readContent(file, defaultContent)
    IN  /\ file' = r.file
        /\ resp' = Response("getContent", 200, "", Undefined,
                            Obj(Stringify(r.content)), Undefined, "")
        /\ UNCHANGED <<defaultContent, uploads, now, hist>>

\* GET /api/content/:section
GetSection(name) ==
    LET r == readContent(file, defaultContent)
        section == Lookup(r.content, name)
    IN  /\ file' = r.file
        /\ resp' = IF Falsy(section)
                   THEN Response("getSection", 404, name, Undefined,
                                 ErrorBody("Section not found"), Undefined, "")
                   ELSE Response("getSection", 200, name, Undefined,
                                 StringifyValue(section), Undefined, "")
        /\ UNCHANGED <<defaultContent, uploads, now, hist>>

\* res.status(401) of requireAdminKey: the route's handlers do not run
Unauthorized(op, key) ==
    /\ resp' = Response(op, 401, "", Undefined,
                        ErrorBody("Unauthorized: invalid admin key"), key, "")
    /\ UNCHANGED <<file, defaultContent, uploads, now, hist>>

\* PUT /api/content/:section
ReplaceSection(name, body, cred) ==
    LET key == Credential(cred[1], cred[2], BodyField(body, "adminKey"))
        r == readContent(file, defaultContent)
        content2 == Assign(r.content, name, body)
    IN  IF Rejected(key) THEN Unauthorized("replaceSection", key)
        ELSE IF ~HasOwn(r.content, name)
        THEN /\ file' = r.file
             /\ resp' = Response("replaceSection", 404, name, Undefined,
                                 ErrorBody("Section not found"), key, "")
             /\ UNCHANGED <<defaultContent, uploads, now, hist>>
        ELSE /\ file' = writeContent(content2)
             /\ defaultContent' = AfterMutation(r, content2, defaultContent)
             /\ resp' = Response("replaceSection", 200, name, Undefined,
                                 StringifyValue(content2[name]), key, "")
             /\ hist' = PutHistory(name, body)
             /\ UNCHANGED <<uploads, now>>

\* GET /api/photos
ListPhotos ==
    LET r == readContent(file, defaultContent)
        photos == Lookup(r.content, "photos")
    IN  /\ file' = r.file
        /\ resp' = Response("listPhotos", 200, "", Undefined,
                            StringifyValue(IF Falsy(photos) THEN Arr(<<>>) ELSE photos),
                            Undefined, "")
        /\ UNCHANGED <<defaultContent, uploads, now, hist>>

\* content.photos as the array the handler works on (line 209)
PhotosArray(content) ==
    IF IsArray(Lookup(content, "photos")) THEN content["photos"].items ELSE <<>>

\* req.body.position || "0"
PositionText(positionField) ==
    IF Falsy(positionField) THEN <<"0">> ELSE positionField.s

\* POST /api/photos: the gate, then multer (which stores the file under the
\* generated name), then the handler. The form's fields are not parsed yet
\* when the gate runs, so the gate reads no adminKey field from the body.
AddPhoto(form, cred) ==
    LET key == Credential(cred[1], cred[2], Undefined)
        id == filename(form.originalname, now)
        label == IF Falsy(form.label) THEN Str(<<"Photo">>) ELSE form.label
        r == readContent(file, defaultContent)
        photoObj == Photo(id, label, ParseInt(PositionText(form.position)))
        pushed == Append(PhotosArray(r.content), photoObj)
    IN  IF Rejected(key) THEN Unauthorized("addPhoto", key)
        ELSE IF ~form.hasFile
        THEN /\ resp' = Response("addPhoto", 400, "", Undefined,
                                 ErrorBody("No file uploaded"), key, "")
             /\ UNCHANGED <<file, defaultContent, uploads, now, hist>>
        ELSE /\ uploads' = uploads \cup {id}
             /\ \E sorted \in SortOutcomes(pushed) :
                    LET content2 == Assign(r.content, "photos", Arr(sorted))
                    IN  /\ file' = writeContent(content2)
                        /\ defaultContent' = AfterMutation(r, content2, defaultContent)
             /\ resp' = Response("addPhoto", 200, "", id,
                                 StringifyItem(photoObj), key, "")
             /\ hist' = NoHistory
             /\ UNCHANGED now

\* items.findIndex((p) => p.id === id), counted from 1; 0 for -1
FindIndex(items, id) ==
    LET hits == {i \in 1..Len(items) : items[i].id = id}
    IN  IF hits = {} THEN 0 ELSE CHOOSE i \in hits : \A j \in hits : i <= j

\* items.splice(index, 1)
Splice(items, index) ==
    SubSeq(items, 1, index - 1) \o SubSeq(items, index + 1, Len(items))

\* an exception thrown by the handler after readContent: Express answers 500
Thrown(op, id, key, fault, r) ==
    /\ file' = r.file
    /\ resp' = Response(op, 500, "", id,
                        ErrorBody("Internal Server Error"), key, fault)
    /\ UNCHANGED <<defaultContent, uploads, now, hist>>

\* DELETE /api/photos/:id, sent without a body; unlinkThrows: fs.unlinkSync
\* fails on the file
RemovePhoto(id, cred, unlinkThrows) ==
    LET key == Credential(cred[1], cred[2], Undefined)
        r == readContent(file, defaultContent)
        photos == Lookup(r.content, "photos")
        index == FindIndex(photos.items, id)
        content2 == Assign(r.content, "photos", Arr(Splice(photos.items, index)))
    IN  IF Rejected(key) THEN Unauthorized("removePhoto", key)
        ELSE IF ~IsArray(photos)
        THEN Thrown("removePhoto", id, key, "findIndex", r)
        ELSE IF index = 0
        THEN /\ file' = r.file
             /\ resp' = Response("removePhoto", 404, "", id,
                                 ErrorBody("Photo not found"), key, "")
             /\ UNCHANGED <<defaultContent, uploads, now, hist>>
        ELSE IF id \in uploads /\ unlinkThrows
        THEN Thrown("removePhoto", id, key, "unlink", r)
        ELSE /\ uploads' = uploads \ {id}
             /\ file' = writeContent(content2)
             /\ defaultContent' = AfterMutation(r, content2, defaultContent)
             /\ resp' = Response("removePhoto", 200, "", id, OkBody, key, "")
             /\ hist' = RemovedHistory(id)
             /\ UNCHANGED now

\* --- the environment
\* time passes
Tick ==
    /\ now' = now + 1
    /\ UNCHANGED <<file, defaultContent, uploads, resp, hist>>

External(what) == Response(what, 0, "", Undefined, Undefined, Undefined, "")

\* the data file is removed from the disk
DataFileLost ==
    /\ file.kind = "json"
    /\ file' = Missing
    /\ resp' = External("dataFileLost")
    /\ hist' = NoHistory
    /\ UNCHANGED <<defaultContent, uploads, now>>

\* the data file is left holding bytes that are no JSON text
DataFileCorrupted ==
    /\ file.kind = "json"
    /\ file' = Corrupt
    /\ resp' = External("dataFileCorrupted")
    /\ hist' = NoHistory
    /\ UNCHANGED <<defaultContent, uploads, now>>

\* --- requests in flight together
\* Each request is one slot. Its handler is taken apart at its file accesses:
\* readContent's read, readContent's write of the defaults, the handler's
\* changes in memory, and writeContent.
Requests == 1..MaxRequests

Idle ==
    [phase |-> "idle", op |-> "none", name |-> "", body |-> Undefined,
     id |-> Undefined, saw |-> Undefined, content |-> Undefined,
     alias |-> FALSE, target |-> Undefined, status |-> 0, readAt |-> 0,
     left |-> Undefined, among |-> {}]

\* saw, left: the data file as the handler found and left it; readAt: writes
\* when readContent returned; among: the requests in flight at its arrival
\* the requests that may arrive, all with the admin key where one is needed
Arrivals(clock) ==
    {[op |-> "getContent", name |-> "", body |-> Undefined, id |-> Undefined]}
    \cup {[op |-> "replaceSection", name |-> "contact", body |-> KeyBody,
           id |-> Undefined]}
    \cup {[op |-> "replaceSection", name |-> "photos", body |-> b,
           id |-> Undefined] : b \in Bodies}
    \cup {[op |-> "addPhoto", name |-> "", body |-> Undefined,
           id |-> filename(n, clock)] : n \in OrigNames}
    \cup {[op |-> "removePhoto", name |-> "", body |-> Undefined, id |-> i] :
            i \in PhotoIds(clock)}

Mutating(q) == q.op \in {"replaceSection", "addPhoto", "removePhoto"}

\* a handler has begun and has not returned
InHandler(q) == q.phase \in {"restoring", "loaded", "writing"}

\* a handler that never yields could be entered while another has not returned
AlwaysFree(rs) == TRUE

\* The handlers call readFileSync and writeFileSync and never await: a
\* handler, once entered, returns before the event loop enters another.
LoopFree(rs) == \A s \in Requests : ~InHandler(rs[s])

\* the request reaches the server; the middleware before the handler runs
\* (multer has stored an uploaded file by then); the slots are taken in the
\* order of arrival
Arrive(s, q) ==
    /\ reqs[s].phase = "idle"
    /\ \A t \in Requests : t < s => reqs[t].phase # "idle"
    /\ reqs' = [reqs EXCEPT ![s] =
                 [Idle EXCEPT !.phase = "pending", !.op = q.op,
                              !.name = q.name, !.body = q.body, !.id = q.id,
                              !.among = {t \in Requests :
                                           reqs[t].phase \notin {"idle", "done"}}]]
    /\ uploads' = IF q.op = "addPhoto" THEN uploads \cup {q.id} ELSE uploads
    /\ UNCHANGED <<file, defaultContent, now, resp, hist, steps, writes>>

\* the phase of a handler that has its document
Loaded(q) == IF q.op = "getContent" THEN "done" ELSE "loaded"

\* the handler is entered and readContent reads the file; when there is no
\* document in it, readContent begins to write the defaults
Load(s) ==
    LET q == reqs[s]
        r == readContent(file, defaultContent)
    IN  /\ q.phase = "pending"
        /\ LoopFree(reqs)
        /\ IF r.file = file
           THEN /\ reqs' = [reqs EXCEPT ![s] =
                             [q EXCEPT !.phase = Loaded(q), !.saw = file,
                                       !.content = r.content, !.alias = r.alias,
                                       !.status = IF q.op = "getContent" THEN 200 ELSE 0,
                                       !.readAt = writes, !.left = file]]
                /\ UNCHANGED <<file, writes>>
           ELSE /\ reqs' = [reqs EXCEPT ![s] =
                             [q EXCEPT !.phase = "restoring", !.saw = file]]
                /\ file' = Partial
                /\ writes' = writes + 1
        /\ UNCHANGED <<defaultContent, uploads, now, resp, hist, steps>>

\* readContent's write of the defaults is complete and readContent returns
RestoreDefaults(s) ==
    LET q == reqs[s]
        r == readContent(q.saw, defaultContent)
    IN  /\ q.phase = "restoring"
        /\ file' = r.file
        /\ reqs' = [reqs EXCEPT ![s] =
                     [q EXCEPT !.phase = Loaded(q), !.content = r.content,
                               !.alias = r.alias,
                               !.status = IF q.op = "getContent" THEN 200 ELSE 0,
                               !.readAt = writes, !.left = r.file]]
        /\ UNCHANGED <<defaultContent, uploads, now, resp, hist, steps, writes>>

\* the handler returns without writing
Refuse(s, status) ==
    /\ reqs' = [reqs EXCEPT ![s] =
                 [reqs[s] EXCEPT !.phase = "done", !.status = status, !.left = file]]
    /\ UNCHANGED <<file, defaultContent, uploads, writes>>

\* the handler has changed its document in memory and writeContent begins
BeginWrite(s, content2, gone) ==
    /\ reqs' = [reqs EXCEPT ![s] =
                 [reqs[s] EXCEPT !.phase = "writing", !.target = content2]]
    /\ defaultContent' = AfterMutation(reqs[s], content2, defaultContent)
    /\ uploads' = uploads \ gone
    /\ file' = Partial
    /\ writes' = writes + 1

\* the three mutating handlers between readContent and writeContent
Mutate(s, unlinkThrows) ==
    LET q == reqs[s]
        photos == Lookup(q.content, "photos")
        photoObj == Photo(q.id, Str(<<"Photo">>), ParseInt(PositionText(Undefined)))
        index == FindIndex(photos.items, q.id)
    IN  /\ q.phase = "loaded"
        /\ UNCHANGED <<now, resp, hist, steps>>
        /\ IF q.op = "replaceSection"
           THEN IF ~HasOwn(q.content, q.name) THEN Refuse(s, 404)
                ELSE BeginWrite(s, Assign(q.content, q.name, q.body), {})
           ELSE IF q.op = "addPhoto"
           THEN \E sorted \in SortOutcomes(Append(PhotosArray(q.content), photoObj)) :
                    BeginWrite(s, Assign(q.content, "photos", Arr(sorted)), {})
           ELSE IF ~IsArray(photos) THEN Refuse(s, 500)
           ELSE IF index = 0 THEN Refuse(s, 404)
           ELSE IF q.id \in uploads /\ unlinkThrows THEN Refuse(s, 500)
           ELSE BeginWrite(s, Assign(q.content, "photos",
                                     Arr(Splice(photos.items, index))), {q.id})

\* writeContent is complete and the handler answers
FinishWrite(s) ==
    LET q == reqs[s]
    IN  /\ q.phase = "writing"
        /\ file' = writeContent(q.target)
        /\ reqs' = [reqs EXCEPT ![s] =
                     [q EXCEPT !.phase = "done", !.status = 200,
                               !.left = writeContent(q.target)]]
        /\ UNCHANGED <<defaultContent, uploads, now, resp, hist, steps, writes>>

\* --- the specification
\* the process has started on a fresh checkout: no data file, no uploads
Init ==
    /\ file = Missing
    /\ defaultContent = BuiltInContent
    /\ uploads = {}
    /\ now = 0
    /\ resp = NoResponse
    /\ hist = NoHistory
    /\ steps = 0
    /\ reqs = [s \in Requests |-> Idle]
    /\ writes = 0

\* one more step of the run
Step ==
    /\ steps < MaxSteps
    /\ steps' = steps + 1
    /\ UNCHANGED <<reqs, writes>>

Next ==
    \/ Step /\ GetContent
    \/ Step /\ \E name \in ReqNames : GetSection(name)
    \/ Step /\ \E name \in ReqNames, body \in Bodies, cred \in Credentials :
            ReplaceSection(name, body, cred)
    \/ Step /\ ListPhotos
    \/ Step /\ \E form \in Forms, cred \in Credentials : AddPhoto(form, cred)
    \/ Step /\ \E id \in PhotoIds(now), cred \in Credentials, unlinkThrows \in BOOLEAN :
            RemovePhoto(id, cred, unlinkThrows)
    \/ Step /\ DataFileLost
    \/ Step /\ DataFileCorrupted
    \/ Step /\ Tick

Spec == Init /\ [][Next]_vars

\* the process starts with whatever data file an earlier run has left
ConcInit ==
    /\ file \in {Missing, Corrupt, JsonFile(BuiltInContent)}
    /\ defaultContent = BuiltInContent
    /\ uploads = {}
    /\ now = 0
    /\ resp = NoResponse
    /\ hist = NoHistory
    /\ steps = 0
    /\ reqs = [s \in Requests |-> Idle]
    /\ writes = 0

ConcNext ==
    \/ \E s \in Requests : \E q \in Arrivals(now) : Arrive(s, q)
    \/ \E s \in Requests : Load(s)
    \/ \E s \in Requests : RestoreDefaults(s)
    \/ \E s \in Requests, unlinkThrows \in BOOLEAN : Mutate(s, unlinkThrows)
    \/ \E s \in Requests : FinishWrite(s)
    \/ DataFileLost /\ UNCHANGED <<steps, reqs, writes>>

ConcSpec == ConcInit /\ [][ConcNext]_vars

\* ------------------------------------------------------------------ claims
\* the document load() returns in the present state
CurrentDocument == readContent(file, defaultContent).content

\* the same, as a reader is sent it
PersistedDocument == Stringify(CurrentDocument)

\* the photos sequence listPhotos returns in the present state
ListedPhotos == StringifyValue(Arr(PhotosArray(CurrentDocument))).items

\* the step taken is a request of kind op (a tick leaves resp alone)
Handled(op) == resp'.op = op /\ now' = now /\ steps' # steps

PositionKey(p) == IF p.position.t = "number" THEN p.position.n ELSE 0

RECURSIVE InsertByKey(_, _)
InsertByKey(sorted, x) ==
    IF sorted = <<>> THEN <<x>>
    ELSE IF PositionKey(sorted[Len(sorted)]) <= PositionKey(x) THEN Append(sorted, x)
    ELSE Append(InsertByKey(SubSeq(sorted, 1, Len(sorted) - 1), x),
                sorted[Len(sorted)])

\* items in ascending order of PositionKey, equal keys in their order in items
RECURSIVE AscendingByKey(_)
AscendingByKey(items) ==
    IF items = <<>> THEN <<>>
    ELSE InsertByKey(AscendingByKey(SubSeq(items, 1, Len(items) - 1)),
                     items[Len(items)])

\* C2: right after a successful addPhoto the listed photos are the earlier
\* photos and the new one in ascending order of position (a missing or
\* non-numeric position counting as 0), equal positions in insertion order.
OrderedAfterAdd ==
    [][(Handled("addPhoto") /\ resp'.status = 200)
        => ListedPhotos' = AscendingByKey(Append(ListedPhotos, resp'.body))]_vars

\* C3: after a successful removePhoto(id) no listed photo has that id, and a
\* removePhoto(id) that follows it with nothing added in between is NotFound.
DeletionInvariant ==
    [][Handled("removePhoto")
        => /\ resp'.status = 200
                => \A i \in 1..Len(ListedPhotos') : ListedPhotos'[i].id # resp'.id
           /\ (hist = RemovedHistory(resp'.id)) => resp'.status = 404]_vars

\* C4: a load() that finds unparsable bytes returns the built-in default
\* document and leaves storage holding that built-in default.
CorruptionRecovery ==
    [][(file.kind = "corrupt" /\ Handled("getContent"))
        => /\ resp'.body = Obj(Stringify(BuiltInContent))
           /\ file' = JsonFile(BuiltInContent)]_vars

\* C5: a load() that finds no persisted document writes the built-in default
\* and returns a document of exactly the five sections, photos empty.
DefaultBootstrap ==
    [][(file.kind = "missing" /\ Handled("getContent"))
        => /\ file' = JsonFile(BuiltInContent)
           /\ DOMAIN resp'.body.fields = SectionNames
           /\ resp'.body.fields["photos"] = Arr(<<>>)]_vars

\* C6: getSection(name) is NotFound for every name that is no key of the
\* current document, and returns the stored value for every name that is.
GetSectionNotFound ==
    [][Handled("getSection")
        => IF resp'.name \in DOMAIN CurrentDocument
           THEN /\ resp'.status = 200
                /\ resp'.body = PersistedDocument[resp'.name]
           ELSE resp'.status = 404]_vars

\* C7: replaceSection(name, value) with a name that is no key of the document
\* is NotFound, creates no section and leaves the persisted document as it was.
NoImplicitSection ==
    [][(Handled("replaceSection") /\ resp'.status # 401
            /\ resp'.name \notin DOMAIN CurrentDocument)
        => /\ resp'.status = 404
           /\ PersistedDocument' = PersistedDocument
           /\ file.kind = "json" => file' = file]_vars

NoImplicitSectionWitness ==
    /\ resp.op = "replaceSection"
    /\ resp.status = 404
    /\ resp.name \in {"doesNotExist", "constructor"}
    /\ resp.name \notin DOMAIN CurrentDocument

\* C8: a request to a mutating route whose credential is missing, empty or
\* not the configured secret gets 401 and changes neither the document nor
\* the stored files; a request with the secret itself is not answered 401.
AdminOps == {"replaceSection", "addPhoto", "removePhoto"}

AdminGate ==
    [][(resp'.op \in AdminOps /\ now' = now /\ steps' # steps)
        => IF resp'.key = ADMIN_KEY
           THEN resp'.status # 401
           ELSE /\ resp'.status = 401
                /\ UNCHANGED <<file, defaultContent, uploads>>]_vars

AdminGateWitness ==
    /\ resp.op \in AdminOps
    /\ resp.status = 401
    /\ resp.key = Undefined
    /\ file.kind = "json"
    /\ uploads # {}

\* C9: every photo entry has a stored file named by its id, and every stored
\* file belongs to an entry.
PhotoFiles ==
    LET items == PhotosArray(CurrentDocument)
    IN  /\ \A i \in 1..Len(items) : items[i].id \in uploads
        /\ \A id \in uploads : \E i \in 1..Len(items) : items[i].id = id

\* C10: when removePhoto finds the entry and deleting its file fails, the
\* request still succeeds and the document is persisted without the entry.
UnlinkFailureSwallowed ==
    [][(Handled("removePhoto") /\ resp'.fault = "unlink")
        => /\ resp'.status = 200
           /\ Len(ListedPhotos') = Len(ListedPhotos) - 1]_vars

\* C11: removePhoto(id) for an id that no listed photo has is NotFound, and
\* leaves the persisted document and the stored files as they were; also
\* after replaceSection has put a value that is no sequence in photos.
RemoveUnknownNotFound ==
    [][(Handled("removePhoto") /\ resp'.status # 401
            /\ \A i \in 1..Len(ListedPhotos) : ListedPhotos[i].id # resp'.id)
        => /\ resp'.status = 404
           /\ PersistedDocument' = PersistedDocument
           /\ uploads' = uploads]_vars

\* C15: the persisted document has exactly the five built-in section names,
\* whatever requests were served.
FiveSections ==
    /\ DOMAIN CurrentDocument = SectionNames
    /\ file.kind = "json" => DOMAIN file.doc = SectionNames

FiveSectionsWitness ==
    /\ hist.kind = "put"
    /\ resp.op = "replaceSection"
    /\ resp.status = 200
    /\ uploads # {}
    /\ file.kind = "json"
    /\ DOMAIN file.doc = SectionNames

\* C16: a successful replaceSection(name, value) makes section name exactly
\* value and leaves every other section as it was; a successful addPhoto or
\* removePhoto leaves every section but photos as it was.
MutationFrame ==
    [][/\ (Handled("replaceSection") /\ resp'.status = 200)
            => PersistedDocument' =
                 [k \in DOMAIN PersistedDocument |->
                    IF k = resp'.name THEN hist'.body ELSE PersistedDocument[k]]
       /\ ((Handled("addPhoto") \/ Handled("removePhoto")) /\ resp'.status = 200)
            => /\ DOMAIN PersistedDocument' = DOMAIN PersistedDocument
               /\ \A k \in DOMAIN PersistedDocument \ {"photos"} :
                     PersistedDocument'[k] = PersistedDocument[k]]_vars

MutationFrameWitness ==
    /\ resp.op = "addPhoto"
    /\ resp.status = 200
    /\ file.kind = "json"
    /\ file.doc["contact"] = KeyBody
    /\ Len(ListedPhotos) = 1

\* ------------------------------------------ claims on requests in flight
\* the document a handler's readContent returned, as JSON
Got(q) == Stringify(q.content)

\* the documents that have been in the data file whole, and the built-in one
WholeDocuments ==
    {Stringify(BuiltInContent)}
    \cup {reqs[s].left.doc : s \in {t \in Requests : /\ reqs[t].phase = "done"
                                                     /\ reqs[t].left.kind = "json"}}

\* C12, as stated: while one mutating request is between its read and its
\* write, another mutating request that waits can do its read, so that both
\* have read the same document.
CyclesInterleave ==
    \A a, b \in Requests :
        (/\ a # b
         /\ reqs[a].phase = "loaded" /\ Mutating(reqs[a])
         /\ reqs[b].phase = "pending" /\ Mutating(reqs[b]))
        => ENABLED Load(b)

\* C12, amended: no two handlers are between entry and return together, and
\* no handler's write falls between another handler's read and its write.
CyclesSerialised ==
    /\ \A a, b \in Requests :
          (InHandler(reqs[a]) /\ InHandler(reqs[b])) => a = b
    /\ \A s \in Requests :
          /\ reqs[s].phase = "loaded" => writes = reqs[s].readAt
          /\ reqs[s].phase = "writing" => writes = reqs[s].readAt + 1

CyclesSerialisedWitness ==
    \E a, b \in Requests :
        /\ a # b
        /\ Mutating(reqs[a]) /\ reqs[a].phase = "done" /\ reqs[a].status = 200
        /\ Mutating(reqs[b]) /\ reqs[b].phase = "writing"
        /\ a \in reqs[b].among
        /\ reqs[a].op = "replaceSection" /\ reqs[a].name = "contact"
        /\ reqs[b].op = "addPhoto"
        /\ reqs[b].readAt > reqs[a].readAt
        /\ Got(reqs[b])["contact"] = reqs[a].body

\* C13: a mutation that succeeded left the data file holding the whole new
\* document; no readContent has seen a partly written file, and every document
\* a handler got is one that was in the file whole, or the built-in one.
WholeDocumentsOnly ==
    \A s \in Requests :
        /\ (reqs[s].phase = "done" /\ Mutating(reqs[s]) /\ reqs[s].status = 200)
              => reqs[s].left = JsonFile(reqs[s].target)
        /\ reqs[s].phase \notin {"idle", "pending"} => reqs[s].saw # Partial
        /\ reqs[s].phase \in {"loaded", "writing", "done"}
              => Got(reqs[s]) \in WholeDocuments

WholeDocumentsOnlyWitness ==
    \E a, b \in Requests :
        /\ a # b
        /\ Mutating(reqs[a]) /\ reqs[a].phase = "done" /\ reqs[a].status = 200
        /\ reqs[b].op = "getContent" /\ reqs[b].phase = "done"
        /\ a \in reqs[b].among \/ b \in reqs[a].among
        /\ reqs[b].saw = reqs[a].left
        /\ Got(reqs[b]) = Stringify(reqs[a].target)
        /\ Got(reqs[b]) # Stringify(BuiltInContent)

\* C14: a load that finds the storage as an earlier load left it returns the
\* same document as that load and leaves the storage the same.
LoadIdempotent ==
    \A a, b \in Requests :
        (/\ reqs[a].op = "getContent" /\ reqs[a].phase = "done"
         /\ reqs[b].op = "getContent" /\ reqs[b].phase = "done"
         /\ reqs[b].saw = reqs[a].left)
        => /\ Got(reqs[b]) = Got(reqs[a])
           /\ reqs[b].left = reqs[a].left

LoadIdempotentWitness ==
    \E a, b \in Requests :
        /\ a # b
        /\ reqs[a].op = "getContent" /\ reqs[a].phase = "done"
        /\ reqs[b].op = "getContent" /\ reqs[b].phase = "done"
        /\ reqs[a].saw = Corrupt
        /\ reqs[b].saw = reqs[a].left
        /\ reqs[b].readAt = writes

====
